---- MODULE Spec2Model ----
(***************************************************************************)
(* Model of ChessAnalizadorPro (src/chess_analysis.py): the retrieval of   *)
(* the monthly archives, the aggregation pass of analizar_partidas, one    *)
(* loop iteration per step, and the renderers that read the statistics.    *)
(***************************************************************************)
EXTENDS Integers, Sequences, FiniteSets, TLC

VARIABLES
    servidor,   \* the games the remote service can serve (fixed in a run)
    partidas,   \* self.partidas
    stats,      \* self.stats once analizar_partidas has assigned it
    statsDef,   \* FALSE while self.stats is still the empty dict {}
    pc,         \* "idle" | "obtener" (month loop) | "analizar" (game loop)
    pendientes, \* months of archivos_a_descargar not requested yet
    base,       \* len(self.partidas) when the running retrieval started
    fallidas,   \* history: indices of partidas appended by a retrieval that returned False
    i,          \* index in partidas of the game the loop processes next
    filtro_tc,  \* argument of the running / last analizar_partidas
    min_rating, \* argument of the running / last analizar_partidas
    repetida,   \* history: the running / last pass repeats the previous call's inputs
    previa,     \* history: the snapshot the previous call left, when repetida
    salida      \* what the last finished call returned, printed or raised

vars == <<servidor, partidas, stats, statsDef, pc, pendientes, base, fallidas,
          i, filtro_tc, min_rating, repetida, previa, salida>>

\* ------------------------------------------------------------------ bounds

MaxPartidas == 3
MaxMeses == 2

\* ------------------------------------------------------------------ values

User == "user"
None == "<None>"
Ausente == "<absent>"

FiltrosTc == {None, "", "600"}
MinRatings == {0, 1500}

Rating == [rival1 |-> 1500, rival2 |-> 1600, rival3 |-> 1400]

Cabeceras == {"[Event]"}
SinJugadas == <<"[Event]">>
PgnA == <<"[Event]", "e2e4", "e7e5">>
PgnB == <<"[Event]", "d2d4", "d7d5">>
PgnC == <<"[Event]", "e2e4", "e7e5", "g1f3", "b8c6", "f1b5">>

PgnAusente == [tipo |-> "ausente", texto |-> <<>>]
PgnNoStr == [tipo |-> "nostr", texto |-> <<>>]
PgnStr(t) == [tipo |-> "str", texto |-> t]

\* The result code the opponent's side carries for the tracked player's code.
Contrario(resultado) ==
    CASE resultado = "win" -> "resigned"
      [] resultado \in {"checkmated", "resigned", "timeout", "lose"} -> "win"
      [] OTHER -> resultado

\* A game record as the service returns it (spec section 3); the tracked
\* player has the white pieces iff conBlancas.
Game(conBlancas, rival, resultado, tc, pgn, end_time) ==
    [white |-> IF conBlancas
               THEN [username |-> "User", rating |-> 1500, result |-> resultado]
               ELSE [username |-> rival, rating |-> Rating[rival], result |-> Contrario(resultado)],
     black |-> IF conBlancas
               THEN [username |-> rival, rating |-> Rating[rival], result |-> Contrario(resultado)]
               ELSE [username |-> "User", rating |-> 1500, result |-> resultado],
     time_control |-> tc,
     end_time |-> end_time,
     pgn |-> pgn]

\* str.lower() on the usernames of the model.
Lower(nombre) == IF nombre = "User" THEN "user" ELSE nombre

\* ------------------------------------------------------------------ Counter / defaultdict

Vacio == [k \in {} |-> 0]

Inc(c, k) == IF k \in DOMAIN c THEN [c EXCEPT ![k] = @ + 1] ELSE c @@ (k :> 1)

IncDia(c, dia, k) ==
    IF dia \in DOMAIN c THEN [c EXCEPT ![dia] = Inc(@, k)] ELSE c @@ (dia :> (k :> 1))

IncApertura(c, key, gana) ==
    LET antes == IF key \in DOMAIN c THEN c[key] ELSE [ganadas |-> 0, total |-> 0]
        ahora == [ganadas |-> antes.ganadas + (IF gana THEN 1 ELSE 0), total |-> antes.total + 1]
    IN  IF key \in DOMAIN c THEN [c EXCEPT ![key] = ahora] ELSE c @@ (key :> ahora)

RECURSIVE Suma(_)
Suma(c) ==
    IF DOMAIN c = {} THEN 0
    ELSE LET k == CHOOSE x \in DOMAIN c : TRUE
         IN  c[k] + Suma([x \in DOMAIN c \ {k} |-> c[x]])

Max(a, b) == IF a >= b THEN a ELSE b
Min(a, b) == IF a <= b THEN a ELSE b

\* ------------------------------------------------------------------ analizar_partidas

StatsIniciales ==
    [ganadas |-> 0, perdidas |-> 0, tablas |-> 0,
     blancas_g |-> 0, blancas_partidas |-> 0,
     negras_g |-> 0, negras_partidas |-> 0,
     total_jugadas |-> 0,
     rivales |-> <<>>,
     ratings_rivales |-> <<>>,
     time_controls |-> Vacio,
     tablas_por_tipo |-> Vacio,
     racha_actual |-> 0, racha_max_g |-> 0, racha_max_p |-> 0,
     partida_corta |-> <<PgnStr(<<>>), 9999>>,
     partida_larga |-> <<PgnStr(<<>>), 0>>,
     mejor_victoria |-> <<"", 0>>,
     peor_derrota |-> <<"", 9999>>,
     aperturas |-> Vacio,
     aperturas_con_resultados |-> Vacio,
     partidas_analizadas |-> 0,
     juegos_por_dia |-> Vacio,
     resultados_dia |-> Vacio]

\* tc = game.get("time_control", "N/A")
Tc(game) == IF game.time_control = Ausente THEN "N/A" ELSE game.time_control

\* Mutant of Filtrada: a game without a time-control label is never filtered.
FiltradaSinDefecto(game, f) ==
    f # None /\ f # "" /\ game.time_control # Ausente /\ game.time_control # f

\* if filtro_tc and tc != filtro_tc: continue
Filtrada(game, f) == f # None /\ f # "" /\ Tc(game) # f

\* The perspective of the tracked player: colour, opponent, rating, result code.
Perspectiva(game) ==
    LET blanco == Lower(game.white.username)
        negro == Lower(game.black.username)
    IN  IF blanco = User
        THEN [blancas |-> TRUE, rival |-> negro,
              rating_rival |-> game.black.rating, resultado |-> game.white.result]
        ELSE [blancas |-> FALSE, rival |-> blanco,
              rating_rival |-> game.white.rating, resultado |-> game.black.result]

ContarColor(s, p) ==
    IF p.blancas THEN [s EXCEPT !.blancas_partidas = @ + 1]
    ELSE [s EXCEPT !.negras_partidas = @ + 1]

\* if rating_rival < min_rating: continue
BajoMinimo(p, m) == p.rating_rival < m

\* Mutant of Registrar: the rating of the opponent is not appended.
RegistrarSinRating(s, p) ==
    [s EXCEPT !.rivales = Append(@, p.rival),
              !.partidas_analizadas = @ + 1]

Registrar(s, p) ==
    [s EXCEPT !.rivales = Append(@, p.rival),
              !.ratings_rivales = Append(@, p.rating_rival),
              !.partidas_analizadas = @ + 1]

Desenlace(resultado) ==
    IF resultado = "win" THEN "ganadas"
    ELSE IF resultado \in {"checkmated", "resigned", "timeout", "lose"} THEN "perdidas"
    ELSE "tablas"

\* Mutant of RachaTrasVictoria: a win after a loss run does not restart at 1.
RachaTrasVictoriaSinReinicio(racha) == racha + 1

RachaTrasVictoria(racha) == IF racha >= 0 THEN racha + 1 ELSE 1

RachaTrasDerrota(racha) == IF racha <= 0 THEN racha - 1 ELSE -1

\* Mutant of Clasificar: a draw leaves the current streak as it was.
ClasificarTablasNoCortan(s, p) ==
    IF Desenlace(p.resultado) = "ganadas" THEN
        LET racha == RachaTrasVictoria(s.racha_actual)
        IN  [s EXCEPT !.ganadas = @ + 1,
                      !.racha_actual = racha,
                      !.racha_max_g = Max(@, racha),
                      !.blancas_g = IF p.blancas THEN @ + 1 ELSE @,
                      !.negras_g = IF p.blancas THEN @ ELSE @ + 1,
                      !.mejor_victoria = IF p.rating_rival > @[2]
                                         THEN <<p.rival, p.rating_rival>> ELSE @]
    ELSE IF Desenlace(p.resultado) = "perdidas" THEN
        LET racha == RachaTrasDerrota(s.racha_actual)
        IN  [s EXCEPT !.perdidas = @ + 1,
                      !.racha_actual = racha,
                      !.racha_max_p = Min(@, racha),
                      !.peor_derrota = IF p.rating_rival < @[2]
                                       THEN <<p.rival, p.rating_rival>> ELSE @]
    ELSE
        [s EXCEPT !.tablas = @ + 1,
                  !.tablas_por_tipo = Inc(@, p.resultado)]

Clasificar(s, p) ==
    IF Desenlace(p.resultado) = "ganadas" THEN
        LET racha == RachaTrasVictoria(s.racha_actual)
        IN  [s EXCEPT !.ganadas = @ + 1,
                      !.racha_actual = racha,
                      !.racha_max_g = Max(@, racha),
                      !.blancas_g = IF p.blancas THEN @ + 1 ELSE @,
                      !.negras_g = IF p.blancas THEN @ ELSE @ + 1,
                      !.mejor_victoria = IF p.rating_rival > @[2]
                                         THEN <<p.rival, p.rating_rival>> ELSE @]
    ELSE IF Desenlace(p.resultado) = "perdidas" THEN
        LET racha == RachaTrasDerrota(s.racha_actual)
        IN  [s EXCEPT !.perdidas = @ + 1,
                      !.racha_actual = racha,
                      !.racha_max_p = Min(@, racha),
                      !.peor_derrota = IF p.rating_rival < @[2]
                                       THEN <<p.rival, p.rating_rival>> ELSE @]
    ELSE
        [s EXCEPT !.tablas = @ + 1,
                  !.tablas_por_tipo = Inc(@, p.resultado),
                  !.racha_actual = 0]

\* chess.pgn.read_game(io.StringIO(game["pgn"])): io.StringIO raises on a value
\* that is no string, read_game returns None on an empty text, otherwise a
\* game whose mainline is the moves that follow the headers.
LeerPgn(pgn) ==
    IF pgn.tipo = "nostr" THEN [error |-> TRUE, game |-> FALSE, mainline |-> <<>>]
    ELSE IF pgn.texto = <<>> THEN [error |-> FALSE, game |-> FALSE, mainline |-> <<>>]
    ELSE [error |-> FALSE, game |-> TRUE,
          mainline |-> SelectSeq(pgn.texto, LAMBDA t : t \notin Cabeceras)]

\* " ".join(str(move) for _, move in zip(range(4), mainline_moves()))
AperturaKey(mainline) == SubSeq(mainline, 1, Min(4, Len(mainline)))

Extremos(s, pgn, jugadas) ==
    [s EXCEPT !.partida_corta = IF jugadas < @[2] THEN <<pgn, jugadas>> ELSE @,
              !.partida_larga = IF jugadas > @[2] THEN <<pgn, jugadas>> ELSE @]

Aperturas(s, key, resultado) ==
    IF key # <<>>
    THEN [s EXCEPT !.aperturas = Inc(@, key),
                   !.aperturas_con_resultados = IncApertura(@, key, resultado = "win")]
    ELSE s

\* The block "Análisis del PGN": the statistics after it, and whether the
\* except clause ran (which ends the iteration with continue).
AnalizarPgn(s, game, resultado) ==
    IF game.pgn.tipo = "ausente" THEN [s |-> s, error |-> FALSE]
    ELSE LET leido == LeerPgn(game.pgn)
         IN  IF leido.error THEN [s |-> s, error |-> TRUE]
             ELSE IF ~leido.game THEN [s |-> s, error |-> FALSE]
             ELSE LET jugadas == Len(leido.mainline)
                      s1 == [s EXCEPT !.total_jugadas = @ + jugadas]
                      s2 == Extremos(s1, game.pgn, jugadas)
                  IN  [s |-> Aperturas(s2, AperturaKey(leido.mainline), resultado),
                       error |-> FALSE]

\* datetime.fromtimestamp(end_time).strftime("%A"): the program never calls
\* setlocale, so the names are those of the C locale; the local calendar is
\* taken to be UTC (1 January 1970 was a Thursday).
NombresC == <<"Monday", "Tuesday", "Wednesday", "Thursday", "Friday", "Saturday", "Sunday">>

DiaSemana(end_time) == NombresC[(((end_time \div 86400) + 3) % 7) + 1]

Categorias(s, game, resultado) ==
    LET dia == DiaSemana(game.end_time)
    IN  [s EXCEPT !.time_controls = Inc(@, Tc(game)),
                  !.juegos_por_dia = Inc(@, dia),
                  !.resultados_dia = IncDia(@, dia, Desenlace(resultado))]

\* Mutant of Procesar: the rating filter is tested after the game is recorded.
ProcesarRegistraAntes(s, game, f, m) ==
    IF Filtrada(game, f) THEN s
    ELSE LET p == Perspectiva(game)
             s1 == Registrar(ContarColor(s, p), p)
         IN  IF BajoMinimo(p, m) THEN s1
             ELSE LET s2 == Clasificar(s1, p)
                      r == AnalizarPgn(s2, game, p.resultado)
                  IN  IF r.error THEN r.s
                      ELSE Categorias(r.s, game, p.resultado)

\* One iteration of "for game in self.partidas".
Procesar(s, game, f, m) ==
    IF Filtrada(game, f) THEN s
    ELSE LET p == Perspectiva(game)
             s1 == ContarColor(s, p)
         IN  IF BajoMinimo(p, m) THEN s1
             ELSE LET s2 == Clasificar(Registrar(s1, p), p)
                      r == AnalizarPgn(s2, game, p.resultado)
                  IN  IF r.error THEN r.s
                      ELSE Categorias(r.s, game, p.resultado)

\* ------------------------------------------------------------------ renderers

Sal(metodo, ret, error, impreso, filas) ==
    [metodo |-> metodo, ret |-> ret, error |-> error, impreso |-> impreso, filas |-> filas]

EnCurso == Sal("", "", "", <<>>, <<>>)

SinReporte(def, s) == ~def \/ s.partidas_analizadas = 0

\* generar_reporte: the early return, or the report (and the file it saves).
Reporte(def, s, guardar) ==
    IF SinReporte(def, s)
    THEN Sal("generar_reporte", "None", "", <<"No se genero un reporte.">>, <<>>)
    ELSE Sal("generar_reporte", "None", "",
             IF guardar THEN <<"INFORME DE ANALISIS DE PARTIDAS", "Reporte guardado">>
             ELSE <<"INFORME DE ANALISIS DE PARTIDAS">>, <<>>)

\* guardar_json: writes the file only when self.stats is not empty.
Json(def) ==
    IF def THEN Sal("guardar_json", "None", "", <<"Estadisticas guardadas">>, <<>>)
    ELSE Sal("guardar_json", "None", "", <<>>, <<>>)

Nombres == <<"Lunes", "Martes", "Miercoles", "Jueves", "Viernes", "Sabado", "Domingo">>

\* actividad_por_dia.get(n, 0)
Actividad(s, n) == IF n \in DOMAIN s.juegos_por_dia THEN s.juegos_por_dia[n] ELSE 0

MaxJuegos(s) ==
    CHOOSE m \in {Actividad(s, Nombres[d]) : d \in 1..7} :
        \A d \in 1..7 : Actividad(s, Nombres[d]) <= m

\* histograma_dias: self.stats["juegos_por_dia"] raises KeyError on the empty
\* dict; otherwise one row per name of nombres, or the no-data message.
Histograma(def, s) ==
    IF ~def
    THEN Sal("histograma_dias", "", "KeyError", <<"Actividad por dia de la semana:">>, <<>>)
    ELSE IF MaxJuegos(s) > 0
    THEN Sal("histograma_dias", "None", "", <<"Actividad por dia de la semana:">>,
             [d \in 1..7 |->
                 [nombre |-> Nombres[d],
                  barras |-> (Actividad(s, Nombres[d]) * 20) \div MaxJuegos(s),
                  juegos |-> Actividad(s, Nombres[d])]])
    ELSE Sal("histograma_dias", "None", "",
             <<"Actividad por dia de la semana:", "No hay datos de juegos por dia.">>, <<>>)

\* generar_recomendaciones: silent on an empty snapshot.
Recomendaciones(def, s) ==
    IF SinReporte(def, s) THEN Sal("generar_recomendaciones", "None", "", <<>>, <<>>)
    ELSE Sal("generar_recomendaciones", "None", "", <<"Recomendaciones para Mejorar">>, <<>>)

\* seleccionar_partida: opcion is the number typed, -1 for an input that is
\* not made of digits; printing seleccionada['pgn'] raises KeyError when the
\* game has no transcript.
Seleccion(lista, opcion) ==
    IF lista = <<>> THEN Sal("seleccionar_partida", "None", "", <<>>, <<>>)
    ELSE IF opcion < 0
    THEN Sal("seleccionar_partida", "None", "", <<"Operacion omitida.">>, <<>>)
    ELSE LET idx == Len(lista) - opcion
         IN  IF 0 <= idx /\ idx < Len(lista)
             THEN IF lista[idx + 1].pgn.tipo = "ausente"
                  THEN Sal("seleccionar_partida", "", "KeyError",
                           <<"Detalles de la partida elegida:">>, <<>>)
                  ELSE Sal("seleccionar_partida", "None", "",
                           <<"Detalles de la partida elegida:">>, <<>>)
             ELSE Sal("seleccionar_partida", "None", "", <<"Numero de partida invalido.">>, <<>>)

\* ------------------------------------------------------------------ the service

SeqsHasta(S, n) == UNION {[1..k -> S] : k \in 0..n}

Todos(colores, rs, ress, tcs, pgns, ets) ==
    {Game(b, r, res, tc, pgn, et) :
        b \in colores, r \in rs, res \in ress, tc \in tcs, pgn \in pgns, et \in ets}

\* The three games of the end-to-end scenario of the specification.
Escenario ==
    {Game(TRUE, "rival1", "win", "600", PgnStr(PgnA), 0),
     Game(FALSE, "rival2", "resigned", "600", PgnStr(PgnB), 0),
     Game(TRUE, "rival3", "agreed", "180", PgnStr(PgnC), 345600)}

\* Games of every outcome that pass both filters ("600", rating 1500), fail
\* the time-control filter ("180") or fail the rating filter (rating 1400).
JuegosFiltros ==
    Todos({TRUE}, {"rival1"}, {"win", "resigned", "agreed"}, {"600", "180"},
          {PgnStr(PgnA)}, {0})
    \cup Todos({TRUE}, {"rival3"}, {"win", "resigned", "agreed"}, {"600"},
               {PgnStr(PgnA)}, {0})

\* Games that differ in colour, opponent rating and result code.
JuegosColor ==
    Todos(BOOLEAN, {"rival1", "rival3"}, {"win", "timeout"}, {"600"},
          {PgnStr(PgnA)}, {0})

\* Games that differ in time-control label (absent included) and result code.
JuegosTc ==
    Todos({TRUE}, {"rival1"}, {"win", "agreed"}, {"600", "180", Ausente},
          {PgnStr(PgnA)}, {0})

\* Games that differ in transcript: none, no string, empty, no move, two
\* of equal length and a longer one.
JuegosPgn ==
    Todos({TRUE}, {"rival1"}, {"win"}, {"600"},
          {PgnAusente, PgnNoStr, PgnStr(<<>>), PgnStr(SinJugadas),
           PgnStr(PgnA), PgnStr(PgnB), PgnStr(PgnC)}, {0})

\* Games that differ in transcript, weekday and time-control label.
JuegosDia ==
    Todos({TRUE}, {"rival1"}, {"win"}, {"600", "180"},
          {PgnNoStr, PgnStr(PgnA)}, {0, 345600})

\* ------------------------------------------------------------------ state machine

InitCon(juegos) ==
    /\ servidor = juegos
    /\ stats = StatsIniciales
    /\ statsDef = FALSE
    /\ pc = "idle"
    /\ pendientes = 0
    /\ base = 0
    /\ fallidas = {}
    /\ i = 0
    /\ filtro_tc = None
    /\ min_rating = 0
    /\ repetida = FALSE
    /\ previa = StatsIniciales
    /\ salida = EnCurso

\* The analyzer as constructed, facing a service that holds the scenario's games.
Init == InitCon(Escenario) /\ partidas = <<>>

\* The analyzer after a retrieval that delivered some games of juegos, facing
\* a service that has nothing more to deliver.
InitCargado(juegos) == InitCon({}) /\ partidas \in SeqsHasta(juegos, MaxPartidas)

InitFiltros == InitCargado(JuegosFiltros)

InitColor == InitCargado(JuegosColor)

InitTc == InitCargado(JuegosTc)

InitPgn == InitCargado(JuegosPgn)

InitDia == InitCargado(JuegosDia)

\* obtener_partidas: the request for the archive list fails.
ObtenerFalla ==
    /\ pc = "idle"
    /\ Len(partidas) < MaxPartidas
    /\ salida' = Sal("obtener_partidas", "False", "", <<"Error al conectar con la API">>, <<>>)
    /\ UNCHANGED <<servidor, partidas, stats, statsDef, pc, pendientes, base, fallidas,
                   i, filtro_tc, min_rating, repetida, previa>>

\* obtener_partidas(meses): the archive list arrives with n months;
\* archivos[-meses:] keeps the last min(meses, n) of them.
ObtenerArchivos(meses, n) ==
    /\ pc = "idle"
    /\ Len(partidas) < MaxPartidas
    /\ pendientes' = Min(meses, n)
    /\ IF Min(meses, n) = 0
       THEN /\ pc' = "idle"
            /\ base' = 0
            /\ salida' = Sal("obtener_partidas", "True", "", <<>>, <<>>)
       ELSE /\ pc' = "obtener"
            /\ base' = Len(partidas)
            /\ salida' = EnCurso
    /\ UNCHANGED <<servidor, partidas, stats, statsDef, fallidas,
                   i, filtro_tc, min_rating, repetida, previa>>

\* One iteration of "for url_mes in archivos_a_descargar" whose request succeeds.
ObtenerMes(juegos) ==
    /\ pc = "obtener"
    /\ pendientes > 0
    /\ partidas' = partidas \o juegos
    /\ pendientes' = pendientes - 1
    /\ IF pendientes = 1
       THEN /\ pc' = "idle"
            /\ base' = 0
            /\ salida' = Sal("obtener_partidas", "True", "", <<"listo">>, <<>>)
       ELSE /\ pc' = "obtener"
            /\ base' = base
            /\ salida' = EnCurso
    /\ UNCHANGED <<servidor, stats, statsDef, fallidas,
                   i, filtro_tc, min_rating, repetida, previa>>

\* One iteration whose request fails: the except clause returns False and
\* leaves self.partidas as the earlier iterations extended it.
ObtenerMesFalla ==
    /\ pc = "obtener"
    /\ pendientes > 0
    /\ pc' = "idle"
    /\ pendientes' = 0
    /\ base' = 0
    /\ fallidas' = fallidas \cup (base + 1 .. Len(partidas))
    /\ salida' = Sal("obtener_partidas", "False", "", <<"Error al conectar con la API">>, <<>>)
    /\ UNCHANGED <<servidor, partidas, stats, statsDef,
                   i, filtro_tc, min_rating, repetida, previa>>

\* analizar_partidas on an empty self.partidas: the early return.
AnalizarVacio ==
    /\ pc = "idle"
    /\ partidas = <<>>
    /\ salida' = Sal("analizar_partidas", "None", "", <<"No hay partidas para analizar.">>, <<>>)
    /\ UNCHANGED <<servidor, partidas, stats, statsDef, pc, pendientes, base, fallidas,
                   i, filtro_tc, min_rating, repetida, previa>>

\* Mutant of AnalizarInicio: self.stats is initialised only while it is empty.
AnalizarInicioSinReinicio(f, m) ==
    /\ pc = "idle"
    /\ partidas # <<>>
    /\ stats' = IF statsDef THEN stats ELSE StatsIniciales
    /\ statsDef' = TRUE
    /\ pc' = "analizar"
    /\ i' = 1
    /\ filtro_tc' = f
    /\ min_rating' = m
    /\ repetida' = (statsDef /\ f = filtro_tc /\ m = min_rating /\ i = Len(partidas) + 1)
    /\ previa' = IF repetida' THEN stats ELSE StatsIniciales
    /\ salida' = EnCurso
    /\ UNCHANGED <<servidor, partidas, pendientes, base, fallidas>>

\* analizar_partidas(f, m) up to the loop: self.stats is assigned afresh.
AnalizarInicio(f, m) ==
    /\ pc = "idle"
    /\ partidas # <<>>
    /\ stats' = StatsIniciales
    /\ statsDef' = TRUE
    /\ pc' = "analizar"
    /\ i' = 1
    /\ filtro_tc' = f
    /\ min_rating' = m
    /\ repetida' = (statsDef /\ f = filtro_tc /\ m = min_rating /\ i = Len(partidas) + 1)
    /\ previa' = IF repetida' THEN stats ELSE StatsIniciales
    /\ salida' = EnCurso
    /\ UNCHANGED <<servidor, partidas, pendientes, base, fallidas>>

\* One iteration of the loop over self.partidas; after the last one the
\* method prints that the analysis is complete and returns.
AnalizarPaso ==
    /\ pc = "analizar"
    /\ i <= Len(partidas)
    /\ stats' = Procesar(stats, partidas[i], filtro_tc, min_rating)
    /\ i' = i + 1
    /\ IF i = Len(partidas)
       THEN /\ pc' = "idle"
            /\ salida' = Sal("analizar_partidas", "None", "", <<"Analisis completado.">>, <<>>)
       ELSE /\ pc' = "analizar"
            /\ salida' = EnCurso
    /\ UNCHANGED <<servidor, partidas, statsDef, pendientes, base, fallidas,
                   filtro_tc, min_rating, repetida, previa>>

Renderiza(s) ==
    /\ pc = "idle"
    /\ salida' = s
    /\ UNCHANGED <<servidor, partidas, stats, statsDef, pc, pendientes, base, fallidas,
                   i, filtro_tc, min_rating, repetida, previa>>

GenerarReporte(guardar) == Renderiza(Reporte(statsDef, stats, guardar))

GuardarJson == Renderiza(Json(statsDef))

HistogramaDias == Renderiza(Histograma(statsDef, stats))

GenerarRecomendaciones == Renderiza(Recomendaciones(statsDef, stats))

SeleccionarPartida(opcion) == Renderiza(Seleccion(partidas, opcion))

Next ==
    \/ ObtenerFalla
    \/ \E meses \in 1..MaxMeses, n \in 0..MaxMeses : ObtenerArchivos(meses, n)
    \/ \E juegos \in SeqsHasta(servidor, MaxPartidas - Len(partidas)) : ObtenerMes(juegos)
    \/ ObtenerMesFalla
    \/ AnalizarVacio
    \/ \E f \in FiltrosTc, m \in MinRatings : AnalizarInicio(f, m)
    \/ AnalizarPaso
    \/ \E guardar \in BOOLEAN : GenerarReporte(guardar)
    \/ GuardarJson
    \/ HistogramaDias
    \/ GenerarRecomendaciones
    \/ \E opcion \in -1..(MaxPartidas + 1) : SeleccionarPartida(opcion)

Spec == Init /\ [][Next]_vars

SpecFiltros == InitFiltros /\ [][Next]_vars

SpecColor == InitColor /\ [][Next]_vars

SpecTc == InitTc /\ [][Next]_vars

SpecPgn == InitPgn /\ [][Next]_vars

SpecDia == InitDia /\ [][Next]_vars

\* ------------------------------------------------------------------ claims

\* The step of the loop that processes partidas[i].
EnPaso == pc = "analizar" /\ i' = i + 1

\* The side of the tracked player and the side of the opponent.
DelUsuario(game) == IF Lower(game.white.username) = User THEN game.white ELSE game.black

DelRival(game) == IF Lower(game.white.username) = User THEN game.black ELSE game.white

Etiqueta(game) == IF game.time_control = Ausente THEN "N/A" ELSE game.time_control

Perdida == {"checkmated", "resigned", "timeout", "lose"}

\* The game passes the time-control filter f and the minimum rating m.
Pasa(game, f, m) ==
    /\ f \in {None, ""} \/ Etiqueta(game) = f
    /\ DelRival(game).rating >= m

\* C1: after any prefix of the games, under any filter and any minimum
\* rating, won + lost + drawn equals the games analyzed, and so do the
\* lengths of the opponent list and of the ratings list.
ConteosCuadran ==
    statsDef =>
        /\ stats.ganadas + stats.perdidas + stats.tablas = stats.partidas_analizadas
        /\ Len(stats.rivales) = stats.partidas_analizadas
        /\ Len(stats.ratings_rivales) = stats.partidas_analizadas

\* C1 witness: in the middle of a pass under both filters, one game has been
\* counted and another has been skipped.
ConteosTrasPrefijo ==
    /\ pc = "analizar"
    /\ filtro_tc = "600"
    /\ min_rating = 1500
    /\ i = 3
    /\ stats.partidas_analizadas = 1
    /\ Len(stats.rivales) = 1

\* C2: the step that classifies a game which passes both filters leaves the
\* streak at previous + 1 (previous positive) or 1 after a win, at
\* previous - 1 (previous negative) or -1 after a loss, and at 0 after a draw.
RachaTrasClasificar ==
    [][(EnPaso /\ Pasa(partidas[i], filtro_tc, min_rating)) =>
        LET resultado == DelUsuario(partidas[i]).result
            antes == stats.racha_actual
            despues == stats'.racha_actual
        IN  /\ resultado = "win" =>
                despues >= 1 /\ despues = (IF antes > 0 THEN antes + 1 ELSE 1)
            /\ resultado \in Perdida =>
                despues <= -1 /\ despues = (IF antes < 0 THEN antes - 1 ELSE -1)
            /\ resultado \notin Perdida \cup {"win"} =>
                despues = 0]_vars

\* C2 witness: a win classified right after a loss has set the streak to 1.
RachaReiniciada ==
    /\ statsDef
    /\ i = 3
    /\ stats.perdidas = 1
    /\ stats.ganadas = 1
    /\ stats.racha_actual = 1
    /\ stats.racha_max_p = -1

\* The pass over the games now in partidas has finished.
PasadaCompleta == pc = "idle" /\ statsDef /\ i = Len(partidas) + 1

\* C3: at the end of a pass the weekday counts and the time-control counts
\* both add up to the games analyzed, a game whose transcript fails to parse
\* included.
CategoriasCuentanTodas ==
    PasadaCompleta =>
        /\ Suma(stats.juegos_por_dia) = stats.partidas_analizadas
        /\ Suma(stats.time_controls) = stats.partidas_analizadas

\* C4: once analizar_partidas has found no games, the stage called next
\* raises no error.
SinPartidasSinError ==
    [][(partidas = <<>> /\ salida.metodo = "analizar_partidas") => salida'.error = ""]_vars

\* C7: a retrieval that returns False has stopped requesting months, and no
\* game it appended before failing is processed by a later pass.
FalloNoAgrega ==
    /\ (salida.metodo = "obtener_partidas" /\ salida.ret = "False") =>
            pc = "idle" /\ pendientes = 0
    /\ (pc = "analizar" /\ i <= Len(partidas)) => i \notin fallidas

\* C5: the step on a game that passes the time-control filter and whose
\* opponent is rated below min_rating changes one field of the statistics,
\* the games-played counter of the colour the tracked player had.
BajoMinimoSoloColor ==
    [][(/\ EnPaso
        /\ filtro_tc \in {None, ""} \/ Etiqueta(partidas[i]) = filtro_tc
        /\ DelRival(partidas[i]).rating < min_rating) =>
        stats' = IF Lower(partidas[i].white.username) = User
                 THEN [stats EXCEPT !.blancas_partidas = @ + 1]
                 ELSE [stats EXCEPT !.negras_partidas = @ + 1]]_vars

\* C5 witness: a pass with min_rating 1500 has gone over a game with black
\* against an opponent rated 1400, after analyzing a game with white.
NegrasSinAnalizar ==
    /\ statsDef
    /\ min_rating = 1500
    /\ i = 3
    /\ stats.blancas_partidas = 1
    /\ stats.negras_partidas = 1
    /\ stats.partidas_analizadas = 1
    /\ stats.ratings_rivales = <<1500>>

\* C6 as stated: under any filter that is given, a game with another label
\* leaves the statistics unchanged.
FiltroDadoExcluye ==
    [][(EnPaso /\ filtro_tc # None /\ Etiqueta(partidas[i]) # filtro_tc) =>
        stats' = stats]_vars

\* C6 amended: under a filter that is a non-empty string, a game with
\* another label ("N/A" when absent) leaves the statistics unchanged; with
\* min_rating 0 the pass ends with as many games analyzed as carry the
\* filter's label and with no other key in time_controls.
FiltroNoVacioExcluye ==
    /\ [][(EnPaso /\ filtro_tc \notin {None, ""} /\ Etiqueta(partidas[i]) # filtro_tc) =>
            stats' = stats]_vars
    /\ []((PasadaCompleta /\ filtro_tc \notin {None, ""} /\ min_rating = 0) =>
            /\ stats.partidas_analizadas =
                   Cardinality({k \in 1..Len(partidas) : Etiqueta(partidas[k]) = filtro_tc})
            /\ DOMAIN stats.time_controls \subseteq {filtro_tc})

\* C6 witness: a pass under filter "600" has ended having analyzed one game
\* of three, one of the others carrying no label.
FiltroAplicado ==
    /\ PasadaCompleta
    /\ filtro_tc = "600"
    /\ min_rating = 0
    /\ Len(partidas) = 3
    /\ \E k \in 1..3 : partidas[k].time_control = Ausente
    /\ stats.partidas_analizadas = 1
    /\ stats.time_controls = ("600" :> 1)

\* The analyzed games of the finished pass whose transcript parsed, and the
\* half-moves of a transcript.
Parseadas ==
    {k \in 1..Len(partidas) :
        /\ Pasa(partidas[k], filtro_tc, min_rating)
        /\ partidas[k].pgn.tipo = "str"
        /\ partidas[k].pgn.texto # <<>>}

MediasJugadas(pgn) == Cardinality({j \in 1..Len(pgn.texto) : pgn.texto[j] \notin Cabeceras})

\* The first game of Parseadas whose half-move count no other one beats.
PrimeraExtrema(mejor(_, _)) ==
    CHOOSE k \in Parseadas :
        /\ \A j \in Parseadas : ~mejor(MediasJugadas(partidas[j].pgn), MediasJugadas(partidas[k].pgn))
        /\ \A j \in Parseadas :
               MediasJugadas(partidas[j].pgn) = MediasJugadas(partidas[k].pgn) => k <= j

\* C8: at the end of a pass in which some analyzed game had a transcript
\* that parsed, partida_corta and partida_larga hold the smallest and the
\* largest half-move count, each with the transcript of the first game of
\* that count.
ExtremosPrimeros ==
    (PasadaCompleta /\ Parseadas # {}) =>
        LET corta == PrimeraExtrema(LAMBDA a, b : a < b)
            larga == PrimeraExtrema(LAMBDA a, b : a > b)
        IN  /\ stats.partida_corta = <<partidas[corta].pgn, MediasJugadas(partidas[corta].pgn)>>
            /\ stats.partida_larga = <<partidas[larga].pgn, MediasJugadas(partidas[larga].pgn)>>

\* C9: when analizar_partidas has run twice in a row on the same games with
\* the same filter and minimum rating, the snapshot the second call leaves
\* equals, field by field, the snapshot the first call left.
SegundaPasadaIgual == (pc = "idle" /\ repetida) => stats = previa

\* C9 witness: a repeated pass under both filters has ended, with games
\* analyzed, games skipped and a streak recorded.
PasadaRepetida ==
    /\ pc = "idle"
    /\ repetida
    /\ filtro_tc = "600"
    /\ min_rating = 1500
    /\ Len(partidas) = 3
    /\ stats.partidas_analizadas = 2
    /\ stats.racha_max_g = 2

\* The result codes, in order, of the games processed so far that passed
\* both filters.
Codigos ==
    LET vistas == SelectSeq(SubSeq(partidas, 1, i - 1),
                            LAMBDA g : Pasa(g, filtro_tc, min_rating))
    IN  [k \in 1..Len(vistas) |-> DelUsuario(vistas[k]).result]

\* The length of the longest run of consecutive codes of the set tipo.
RachaMasLarga(codigos, tipo) ==
    LET largos == {b - a + 1 : <<a, b>> \in
                      {ab \in (1..Len(codigos)) \X (1..Len(codigos)) :
                          /\ ab[1] <= ab[2]
                          /\ \A k \in ab[1]..ab[2] : codigos[k] \in tipo}}
    IN  IF largos = {} THEN 0 ELSE CHOOSE l \in largos : \A m \in largos : m <= l

\* C10: after every processed prefix, and so at the end of the pass,
\* racha_max_g is the length of the longest run of consecutive wins among
\* the analyzed games, racha_max_p is minus the length of the longest run
\* of consecutive losses, and racha_max_p <= racha_actual <= racha_max_g.
RachasMaximas ==
    statsDef =>
        /\ stats.racha_max_g = RachaMasLarga(Codigos, {"win"})
        /\ stats.racha_max_p = 0 - RachaMasLarga(Codigos, Perdida)
        /\ stats.racha_max_p <= stats.racha_actual
        /\ stats.racha_actual <= stats.racha_max_g

\* C10 witness: a pass has ended with a run of two wins around a game that
\* the time-control filter skipped.
RachaSobreOmitida ==
    /\ PasadaCompleta
    /\ filtro_tc = "600"
    /\ Len(partidas) = 3
    /\ partidas[2].time_control = "180"
    /\ stats.racha_max_g = 2
    /\ stats.partidas_analizadas = 2

\* The count the aggregation recorded for the d-th weekday, Monday first.
Registrado(d) ==
    IF NombresC[d] \in DOMAIN stats.juegos_por_dia THEN stats.juegos_por_dia[NombresC[d]] ELSE 0

\* C11: histograma_dias called after a pass that recorded games prints seven
\* rows, Monday to Sunday; each row shows the count recorded in
\* juegos_por_dia for its weekday, so the counts shown add up to the total
\* of juegos_por_dia, and the bar of the busiest day is 20 characters long.
HistogramaFiel ==
    (/\ PasadaCompleta
     /\ Suma(stats.juegos_por_dia) > 0
     /\ salida.metodo = "histograma_dias") =>
        /\ salida.error = ""
        /\ Len(salida.filas) = 7
        /\ \A d \in 1..7 : salida.filas[d].juegos = Registrado(d)
        /\ \E d \in 1..7 :
               /\ \A e \in 1..7 : Registrado(e) <= Registrado(d)
               /\ salida.filas[d].barras = 20

====
